---- MODULE Spec2Model ----
(***************************************************************************)
(* Access-control engine and audit trail of the mazarbul backend.          *)
(*                                                                         *)
(* The state is the content of the relational tables (models.py) plus the  *)
(* clock and the last HTTP response.  Row ids are positive integers, and   *)
(* SQL NULL / Python None is modelled as 0, which is also falsy in the     *)
(* truthiness tests of the handlers (`if record.owner_group_id:`).         *)
(* Timestamps are ISO-8601 strings of one format in the code; their        *)
(* lexicographic order is the order of the instants, modelled as naturals. *)
(* A query without ORDER BY returns rows in rowid order (SQLite), so the   *)
(* record_access table is a sequence in insertion order and `.first()` is  *)
(* the first matching element.                                             *)
(***************************************************************************)
EXTENDS Integers, Sequences, FiniteSets, TLC

VARIABLES users, memberships, record_access,
          business_case, budget_item, line_item, wbs, asset,
          purchase_order, goods_receipt, resource, allocation,
          audit_log, now, resp

vars == <<users, memberships, record_access,
          business_case, budget_item, line_item, wbs, asset,
          purchase_order, goods_receipt, resource, allocation,
          audit_log, now, resp>>

tables == <<business_case, budget_item, line_item, wbs, asset>>

\* The tables below the asset, and the resources.
procurement == <<purchase_order, goods_receipt, resource, allocation>>

(* ---------------------------- bounds ----------------------------------- *)
MaxGrants == 2        \* rows of record_access
MaxMembers == 2       \* rows of user_group_membership
MaxTime == 1          \* the clock runs 0..MaxTime
MaxAudit == 2         \* rows of audit_log
MaxRecords == 2       \* largest id of a row of a table requests insert into
MaxParentGrants == 1  \* rows of record_access while child records are created
MaxCreated == 1       \* child records created in one behaviour

(* --------------------------- universe ---------------------------------- *)
NULL == 0

\* None in a field that holds a string, and the mark of a field of an
\* update body that the request did not set (model_dump(exclude_unset=True)
\* leaves it out).
NoString == "<None>"
Unset == "<unset>"

Users == {1, 2, 3, 4}
Groups == {1, 2}
Levels == {"Read", "Write", "Full"}

\* The principals: the Admin, the User and the Manager reset_and_seed.py
\* creates, and a Viewer of another department.
SeedUsers ==
    [u \in Users |->
        CASE u = 1 -> [role |-> "Admin",  department |-> "IT"]
          [] u = 2 -> [role |-> "User",   department |-> "IT"]
          [] u = 3 -> [role |-> "Viewer", department |-> "HR"]
          [] OTHER -> [role |-> "Manager", department |-> "IT"]]

NonAdmins == {u \in Users : users[u].role \notin {"Admin", "Manager"}}

(* ------------------------- table helpers ------------------------------- *)
Max(S) == CHOOSE x \in S : \A y \in S : y <= x

\* INTEGER PRIMARY KEY without AUTOINCREMENT: the next rowid is max + 1.
NextId(ids) == IF ids = {} THEN 1 ELSE Max(ids) + 1

Range(s) == {s[i] : i \in DOMAIN s}

\* Remove the i-th row of a table held as a sequence.
RemoveAt(s, i) == SubSeq(s, 1, i - 1) \o SubSeq(s, i + 1, Len(s))

\* models.<record_type>: the classes getattr(models, record_type, None) finds.
ModelClasses == {"BusinessCase", "BudgetItem", "BusinessCaseLineItem", "WBS", "Asset"}

Table(record_type) ==
    CASE record_type = "BusinessCase" -> business_case
      [] record_type = "BudgetItem" -> budget_item
      [] record_type = "BusinessCaseLineItem" -> line_item
      [] record_type = "WBS" -> wbs
      [] record_type = "Asset" -> asset
      [] record_type = "PurchaseOrder" -> purchase_order
      [] record_type = "GoodsReceipt" -> goods_receipt
      [] record_type = "Resource" -> resource
      [] record_type = "ResourcePOAllocation" -> allocation

\* hasattr(record, 'owner_group_id') / hasattr(record, 'dept')
HasOwnerGroup(record_type) == record_type # "BusinessCase"
HasDept(record_type) == record_type = "BusinessCase"

(* --------------------------- auth.py ----------------------------------- *)
\* access_levels.get(level, default)
access_levels(level, default) ==
    CASE level = "Read" -> 0
      [] level = "Write" -> 1
      [] level = "Full" -> 2
      [] OTHER -> default

\* A cap table that lets the role User reach Full.
role_caps_user_full(role) ==
    CASE role = "Viewer" -> 0
      [] role = "User" -> 2
      [] role = "Manager" -> 2
      [] role = "Admin" -> 2
      [] OTHER -> 0

\* role_caps.get(role, 0)
role_caps(role) ==
    CASE role = "Viewer" -> 0
      [] role = "User" -> 1
      [] role = "Manager" -> 2
      [] role = "Admin" -> 2
      [] OTHER -> 0

\* role_hierarchy.get(role, default)
role_hierarchy(role, default) ==
    CASE role = "Viewer" -> 0
      [] role = "User" -> 1
      [] role = "Manager" -> 2
      [] role = "Admin" -> 3
      [] OTHER -> default

require_role(u, required_role) ==
    role_hierarchy(users[u].role, 0) >= role_hierarchy(required_role, 3)

\* memberships[<<u, g>>] is the number of user_group_membership rows with
\* user_id = u and group_id = g (the table has no uniqueness constraint).
IsMember(u, g) == <<u, g>> \in DOMAIN memberships /\ memberships[<<u, g>>] > 0

MemberRows == LET Sum[S \in SUBSET DOMAIN memberships] ==
                      IF S = {} THEN 0
                      ELSE LET x == CHOOSE y \in S : TRUE
                           IN  memberships[x] + Sum[S \ {x}]
              IN  Sum[DOMAIN memberships]

user_group_ids(u) == {g \in Groups : IsMember(u, g)}

user_in_owner_group(u, owner_group_id) ==
    \/ users[u].role \in {"Admin", "Manager"}
    \/ IsMember(u, owner_group_id)

\* A filter that lets every row through, expired or not.
NotExpiredDropped(row) == row.expires_at = NULL \/ row.expires_at >= 0

\* expires_at IS NULL OR expires_at > now
NotExpired(row) == row.expires_at = NULL \/ row.expires_at > now

\* Query.first(): the first of the rows (indices) a query matches, 0 when
\* it matches none.
FirstIndex(matching) ==
    IF matching = {} THEN 0
    ELSE CHOOSE i \in matching : \A j \in matching : i <= j

\* The record a handler loads with db.get(model_cls, record_id), if any.
RecordExists(record_type, record_id) ==
    record_type \in ModelClasses /\ record_id \in DOMAIN Table(record_type)

\* A comparison that accepts a grant of exactly the required level only.
LevelSufficesExact(row, required) ==
    access_levels(row.access_level, 0) = access_levels(required, 2)

\* The comparison of a found grant with the required level
\* (`access_levels.get(row.access_level, 0) >= req_level_val`).
LevelSuffices(row, required) ==
    access_levels(row.access_level, 0) >= access_levels(required, 2)

\* filter(record_type ==, record_id ==, user_id == user.id, not expired).first()
DirectGrant(db, u, record_type, record_id) ==
    FirstIndex({i \in DOMAIN db : /\ db[i].record_type = record_type
                                  /\ db[i].record_id = record_id
                                  /\ db[i].user_id = u
                                  /\ NotExpired(db[i])})

\* filter(record_type ==, record_id ==, group_id == membership.group_id,
\*        not expired).first()
GroupGrant(db, g, record_type, record_id) ==
    FirstIndex({i \in DOMAIN db : /\ db[i].record_type = record_type
                                  /\ db[i].record_id = record_id
                                  /\ db[i].group_id = g
                                  /\ NotExpired(db[i])})

\* filter(record_type ==, record_id ==,
\*        (user_id == user.id) | group_id.in_(user_group_ids),
\*        not expired).first()
AnyGrant(db, u, record_type, record_id) ==
    FirstIndex({i \in DOMAIN db : /\ db[i].record_type = record_type
                                  /\ db[i].record_id = record_id
                                  /\ \/ db[i].user_id = u
                                     \/ db[i].group_id \in user_group_ids(u)
                                  /\ NotExpired(db[i])})

\* A bypass for the Admin alone.
role_bypasses_admin_only(role) == role = "Admin"

\* The two early returns of access_checker: Admin, then Manager.
role_bypasses(role) == role = "Admin" \/ role = "Manager"

\* access_checker of check_record_access, for a request that carries the
\* record id in its path: TRUE when the dependency returns current_user,
\* FALSE when it raises 403.  db is the content of record_access.
check_record_access(db, u, record_type, record_id, required_access) ==
    LET role == users[u].role
        found == RecordExists(record_type, record_id)
        record == Table(record_type)[record_id]
        ui == DirectGrant(db, u, record_type, record_id)
    IN  IF role_bypasses(role) THEN TRUE
        ELSE IF access_levels(required_access, 2) > role_caps(role) THEN FALSE
        ELSE \/ found /\ record.created_by = u
             \/ /\ found
                /\ HasOwnerGroup(record_type)
                /\ record.owner_group_id # NULL
                /\ user_in_owner_group(u, record.owner_group_id)
             \/ ui # 0 /\ LevelSuffices(db[ui], required_access)
             \/ \E g \in user_group_ids(u) :
                    LET gi == GroupGrant(db, g, record_type, record_id)
                    IN  gi # 0 /\ LevelSuffices(db[gi], required_access)
             \/ /\ role = "User"
                /\ found
                /\ HasDept(record_type)
                /\ record.dept = users[u].department
                /\ required_access \in {"Read", "Write"}

\* business_case.line_items
LineItemsOf(bc_id) == {li \in DOMAIN line_item : line_item[li].business_case_id = bc_id}

\* The guard of step 2 of check_business_case_access
\* (`required_level in ["Write", "Full"] and business_case.lead_group_id`).
LeadGateApplies(bc_id, required_level) ==
    required_level \in {"Write", "Full"} /\ business_case[bc_id].lead_group_id # NULL

\* Step 3 of check_business_case_access, for one line item.
LineItemAllows(db, u, li, required_level) ==
    LET bi == line_item[li].budget_item_id
        gi == AnyGrant(db, u, "BudgetItem", bi)
    IN  \/ /\ budget_item[bi].owner_group_id # NULL
           /\ user_in_owner_group(u, budget_item[bi].owner_group_id)
        \/ gi # 0 /\ LevelSuffices(db[gi], required_level)

\* A creator rule that forgets the level.
CreatorAllowsAnyLevel(bc_id, u, required_level) ==
    business_case[bc_id].created_by = u

\* Step 1 of check_business_case_access: the creator reads, and only reads.
CreatorAllows(bc_id, u, required_level) ==
    business_case[bc_id].created_by = u /\ required_level = "Read"

\* check_business_case_access(user, business_case, db, required_level)
check_business_case_access(db, u, bc_id, required_level) ==
    LET bc == business_case[bc_id]
        bi == AnyGrant(db, u, "BusinessCase", bc_id)
        bcGrantOk == bi # 0 /\ LevelSuffices(db[bi], required_level)
    IN  IF CreatorAllows(bc_id, u, required_level) THEN TRUE
        ELSE IF /\ LeadGateApplies(bc_id, required_level)
                /\ required_level = "Write"
                /\ user_in_owner_group(u, bc.lead_group_id) THEN TRUE
        ELSE IF LeadGateApplies(bc_id, required_level) /\ ~bcGrantOk THEN FALSE
        ELSE \/ \E li \in LineItemsOf(bc_id) : LineItemAllows(db, u, li, required_level)
             \/ bcGrantOk

\* A creation-time check that accepts a grant of any level.
can_create_child_any_level(db, u, parent_type, parent_id) ==
    LET role == users[u].role
        parent == Table(parent_type)[parent_id]
    IN  IF role = "Viewer" THEN FALSE
        ELSE IF role \in {"Admin", "Manager"} THEN TRUE
        ELSE \/ parent.owner_group_id \in user_group_ids(u)
             \/ \E i \in DOMAIN db :
                    /\ db[i].record_type = parent_type
                    /\ db[i].record_id = parent_id
                    /\ (db[i].user_id = u \/ db[i].group_id \in user_group_ids(u))
                    /\ NotExpired(db[i])

\* The creation-time check the create handlers of the child records repeat
\* (create_wbs, create_asset, create_purchase_order, ...): TRUE when the
\* caller may create a child under the existing parent record.
can_create_child(db, u, parent_type, parent_id) ==
    LET role == users[u].role
        parent == Table(parent_type)[parent_id]
    IN  IF role = "Viewer" THEN FALSE
        ELSE IF role \in {"Admin", "Manager"} THEN TRUE
        ELSE \/ parent.owner_group_id \in user_group_ids(u)
             \/ \E i \in DOMAIN db :
                    /\ db[i].record_type = parent_type
                    /\ db[i].record_id = parent_id
                    /\ (db[i].user_id = u \/ db[i].group_id \in user_group_ids(u))
                    /\ db[i].access_level \in {"Write", "Full"}
                    /\ NotExpired(db[i])

(* ------------------------- responses ----------------------------------- *)
\* The outcome of the last request: the handler, the HTTP status, the
\* caller and the id of the row the request created, changed or removed.
Response(op, status, c, id) ==
    [op |-> op, status |-> status, user |-> c, record_id |-> id]

\* A rejection that comes after an audit entry was written.
RejectAfterWrite(op, status, c) ==
    /\ resp' = Response(op, status, c, NULL)
    /\ audit_log' = IF audit_log = <<>>
                    THEN <<[table_name |-> op, record_id |-> NULL, action |-> "UPDATE",
                            old_values |-> <<>>, new_values |-> <<>>, user_id |-> c]>>
                    ELSE audit_log
    /\ UNCHANGED <<users, procurement, memberships, record_access, tables, now>>

\* A request that is rejected: the response is the only thing that changes.
Reject(op, status, c) ==
    /\ resp' = Response(op, status, c, NULL)
    /\ UNCHANGED <<users, procurement, memberships, record_access, tables, audit_log, now>>

(* ------------------------ the clock ------------------------------------ *)
Tick ==
    /\ now < MaxTime
    /\ now' = now + 1
    /\ UNCHANGED <<users, procurement, memberships, record_access, tables, audit_log, resp>>

(* --------------------- routers/record_access.py ------------------------ *)
\* POST /record-access: c is current_user, access the RecordAccessCreate body.
grant_access(c, access) ==
    LET target_is_viewer ==
            /\ access.user_id # NULL
            /\ access.user_id \in DOMAIN users
            /\ users[access.user_id].role = "Viewer"
        can_grant ==
            \/ users[c].role \in {"Admin", "Manager"}
            \/ /\ RecordExists(access.record_type, access.record_id)
               /\ Table(access.record_type)[access.record_id].created_by = c
            \/ \E i \in DOMAIN record_access :
                   /\ record_access[i].record_type = access.record_type
                   /\ record_access[i].record_id = access.record_id
                   /\ record_access[i].user_id = c
                   /\ record_access[i].access_level = "Full"
        db_access ==
            [id |-> NextId({record_access[i].id : i \in DOMAIN record_access}),
             record_type |-> access.record_type,
             record_id |-> access.record_id,
             user_id |-> access.user_id,
             group_id |-> access.group_id,
             access_level |-> access.access_level,
             granted_by |-> c,
             expires_at |-> access.expires_at,
             updated_by |-> NULL]
    IN  IF target_is_viewer /\ access.access_level \in {"Write", "Full"}
        THEN Reject("grant_access", 400, c)
        ELSE IF /\ users[c].role \notin {"Admin", "Manager"}
                /\ access.record_type \notin ModelClasses
        THEN Reject("grant_access", 400, c)
        ELSE IF ~can_grant
        THEN Reject("grant_access", 403, c)
        ELSE /\ Len(record_access) < MaxGrants
             /\ record_access' = Append(record_access, db_access)
             /\ resp' = Response("grant_access", 200, c, db_access.id)
             /\ UNCHANGED <<users, procurement, memberships, tables, audit_log, now>>

\* db.get(models.RecordAccess, access_id): the index of the row with that
\* id, 0 when there is none.
AccessIndex(access_id) ==
    FirstIndex({i \in DOMAIN record_access : record_access[i].id = access_id})

\* An authorization of revoke and update that lets any caller through.
may_modify_any(c, access_record) == TRUE

\* current_user.role in ["Admin", "Manager"] or
\* access_record.granted_by == current_user.id
may_modify(c, access_record) ==
    \/ users[c].role \in {"Admin", "Manager"}
    \/ access_record.granted_by = c

\* DELETE /record-access/{access_id}
revoke_access(c, access_id) ==
    LET i == AccessIndex(access_id)
    IN  IF i = 0 THEN Reject("revoke_access", 404, c)
        ELSE IF may_modify(c, record_access[i])
        THEN /\ record_access' = RemoveAt(record_access, i)
             /\ resp' = Response("revoke_access", 200, c, access_id)
             /\ UNCHANGED <<users, procurement, memberships, tables, audit_log, now>>
        ELSE Reject("revoke_access", 403, c)

\* A Viewer policy of update that only refuses Full.
viewer_policy_full_only(access_record, access_level) ==
    /\ access_record.user_id # NULL
    /\ access_record.user_id \in DOMAIN users
    /\ users[access_record.user_id].role = "Viewer"
    /\ access_level \in {"Full"}

\* The Viewer policy as update_access applies it: the grant names a user,
\* the user exists and is a Viewer, and the new level is Write or Full.
viewer_policy_violated(access_record, access_level) ==
    /\ access_record.user_id # NULL
    /\ access_record.user_id \in DOMAIN users
    /\ users[access_record.user_id].role = "Viewer"
    /\ access_level \in {"Write", "Full"}

\* PUT /record-access/{access_id} with body access_update (RecordAccessUpdate:
\* a field that is None was not given).
update_access(c, access_id, access_update) ==
    LET i == AccessIndex(access_id)
    IN  IF i = 0 THEN Reject("update_access", 404, c)
        ELSE IF ~may_modify(c, record_access[i])
        THEN Reject("update_access", 403, c)
        ELSE IF /\ access_update.access_level # NoString
                /\ viewer_policy_violated(record_access[i], access_update.access_level)
        THEN Reject("update_access", 400, c)
        ELSE LET access_record == record_access[i]
                 updated ==
                     [access_record EXCEPT
                        !.access_level = IF access_update.access_level # NoString
                                         THEN access_update.access_level ELSE @,
                        !.expires_at = IF access_update.expires_at # NULL
                                       THEN access_update.expires_at ELSE @,
                        !.updated_by = c]
             IN  /\ record_access' = [record_access EXCEPT ![i] = updated]
                 /\ resp' = Response("update_access", 200, c, access_id)
                 /\ UNCHANGED <<users, procurement, memberships, tables, audit_log, now>>

(* ------------------------ routers/users.py ----------------------------- *)
\* PUT /users/{user_id} with body user_update (UserUpdate: a field that is
\* None or empty is skipped; the role is any string and only an Admin's
\* request changes it).
update_user(c, user_id, user_update) ==
    IF users[c].role # "Admin" /\ c # user_id
    THEN Reject("update_user", 403, c)
    ELSE IF user_id \notin DOMAIN users
    THEN Reject("update_user", 404, c)
    ELSE /\ users' =
                [users EXCEPT
                   ![user_id].department =
                       IF user_update.department \notin {NoString, ""}
                       THEN user_update.department ELSE @,
                   ![user_id].role =
                       IF user_update.role \notin {NoString, ""} /\ users[c].role = "Admin"
                       THEN user_update.role ELSE @]
         /\ resp' = Response("update_user", 200, c, user_id)
         /\ UNCHANGED <<procurement, memberships, record_access, tables, audit_log, now>>

(* ---------------------- routers/user_groups.py ------------------------- *)
\* POST /user-groups/{group_id}/members with body membership.
add_group_member(c, group_id, membership) ==
    IF ~require_role(c, "Manager")
    THEN Reject("add_group_member", 403, c)
    ELSE IF membership.group_id # group_id
    THEN Reject("add_group_member", 400, c)
    ELSE /\ MemberRows < MaxMembers
         /\ memberships' =
                [memberships EXCEPT ![<<membership.user_id, group_id>>] = @ + 1]
         /\ resp' = Response("add_group_member", 200, c, NULL)
         /\ UNCHANGED <<users, procurement, record_access, tables, audit_log, now>>

\* DELETE /user-groups/{group_id}/members/{user_id}
remove_group_member(c, group_id, user_id) ==
    IF ~require_role(c, "Manager")
    THEN Reject("remove_group_member", 403, c)
    ELSE IF ~IsMember(user_id, group_id)
    THEN Reject("remove_group_member", 404, c)
    ELSE /\ memberships' = [memberships EXCEPT ![<<user_id, group_id>>] = @ - 1]
         /\ resp' = Response("remove_group_member", 200, c, NULL)
         /\ UNCHANGED <<users, procurement, record_access, tables, audit_log, now>>

(* --------------------- auth.py: audit_log_change ----------------------- *)
\* What can go wrong in the storage layer during a request: nothing, the
\* handler's own db.commit(), or the db.commit() of the audit entry.
Faults == {"none", "commit", "audit"}

\* table_name.title().replace('_', ''): the attribute of models the
\* decorator looks up for the table it is given.
TitleName(table_name) ==
    CASE table_name = "asset" -> "Asset"
      [] table_name = "wbs" -> "Wbs"
      [] table_name = "business_case" -> "BusinessCase"
      [] table_name = "budget_item" -> "BudgetItem"
      [] table_name = "business_case_line_item" -> "BusinessCaseLineItem"
      [] table_name = "purchase_order" -> "PurchaseOrder"
      [] table_name = "goods_receipt" -> "GoodsReceipt"
      [] table_name = "resource_po_allocation" -> "ResourcePoAllocation"

\* The snapshot of a row the audit entry stores (a dict of its columns,
\* serialised); None is the empty tuple.
Snapshot(row) == <<row>>

\* The pre-fetch of old_values, done before the decorated handler runs.
OldValues(action, table_name, record_id) ==
    LET cls == TitleName(table_name)
    IN  IF /\ action \in {"UPDATE", "DELETE"}
           /\ record_id # NULL
           /\ RecordExists(cls, record_id)
        THEN Snapshot(Table(cls)[record_id])
        ELSE <<>>

\* An audit write that replaces the newest entry.
overwrite_audit_entry(log, audit_entry) ==
    IF log = <<>> THEN <<audit_entry>> ELSE [log EXCEPT ![Len(log)] = audit_entry]

\* db.add(audit_entry) followed by the commit: one INSERT into audit_log.
add_audit_entry(log, audit_entry) == Append(log, audit_entry)

\* The part of the wrapper that runs after the decorated handler has
\* returned its result (the row result_values with id result_id, or the
\* dict of a delete), i.e. after the handler's own commit.
audit_log_change(op, action, table_name, c, kw_id, result_id, result_values, fault) ==
    LET audit_entry ==
            [table_name |-> table_name,
             record_id |-> result_id,
             action |-> action,
             old_values |-> OldValues(action, table_name, kw_id),
             new_values |-> IF action \in {"CREATE", "UPDATE"}
                            THEN result_values ELSE <<>>,
             user_id |-> c]
    IN  IF result_id = NULL
        THEN audit_log' = audit_log /\ resp' = Response(op, 200, c, result_id)
        ELSE IF fault = "audit"
        THEN audit_log' = audit_log /\ resp' = Response(op, 500, c, result_id)
        ELSE /\ audit_log' = add_audit_entry(audit_log, audit_entry)
             /\ resp' = Response(op, 200, c, result_id)

\* The table without the row id.
DeleteRow(table, id) == [i \in DOMAIN table \ {id} |-> table[i]]

\* The table with the row id inserted or replaced.
PutRow(table, id, row) ==
    [i \in DOMAIN table \cup {id} |-> IF i = id THEN row ELSE table[i]]

(* ------------------------ routers/assets.py ---------------------------- *)
\* PUT /assets/{asset_id}
update_asset(c, asset_id, asset_update, fault) ==
    IF ~check_record_access(record_access, c, "Asset", asset_id, "Write")
    THEN Reject("update_asset", 403, c)
    ELSE IF asset_id \notin DOMAIN asset
    THEN Reject("update_asset", 404, c)
    ELSE IF fault = "commit"
    THEN Reject("update_asset", 500, c)
    ELSE LET row == [asset[asset_id] EXCEPT !.status = asset_update.status,
                                            !.updated_by = c]
         IN  /\ Len(audit_log) < MaxAudit
             /\ asset' = PutRow(asset, asset_id, row)
             /\ audit_log_change("update_asset", "UPDATE", "asset", c,
                                 asset_id, asset_id, Snapshot(row), fault)
             /\ UNCHANGED <<users, procurement, memberships, record_access, business_case,
                            budget_item, line_item, wbs, now>>

\* DELETE /assets/{asset_id}
delete_asset(c, asset_id, fault) ==
    IF ~check_record_access(record_access, c, "Asset", asset_id, "Full")
    THEN Reject("delete_asset", 403, c)
    ELSE IF asset_id \notin DOMAIN asset
    THEN Reject("delete_asset", 404, c)
    ELSE IF fault = "commit"
    THEN Reject("delete_asset", 500, c)
    ELSE /\ Len(audit_log) < MaxAudit
         /\ asset' = DeleteRow(asset, asset_id)
         /\ audit_log_change("delete_asset", "DELETE", "asset", c,
                             asset_id, asset_id, <<>>, fault)
         /\ UNCHANGED <<users, procurement, memberships, record_access, business_case,
                        budget_item, line_item, wbs, now>>

(* -------------------------- routers/wbs.py ----------------------------- *)
\* PUT /wbs/{wbs_id}
update_wbs(c, wbs_id, wbs_update, fault) ==
    IF ~check_record_access(record_access, c, "WBS", wbs_id, "Write")
    THEN Reject("update_wbs", 403, c)
    ELSE IF wbs_id \notin DOMAIN wbs
    THEN Reject("update_wbs", 404, c)
    ELSE IF fault = "commit"
    THEN Reject("update_wbs", 500, c)
    ELSE LET row == [wbs[wbs_id] EXCEPT !.status = wbs_update.status,
                                        !.updated_by = c]
         IN  /\ Len(audit_log) < MaxAudit
             /\ wbs' = PutRow(wbs, wbs_id, row)
             /\ audit_log_change("update_wbs", "UPDATE", "wbs", c,
                                 wbs_id, wbs_id, Snapshot(row), fault)
             /\ UNCHANGED <<users, procurement, memberships, record_access, business_case,
                            budget_item, line_item, asset, now>>

(* --------------------- routers/business_cases.py ----------------------- *)
\* GET /business-cases/{bc_id}: the status of the response.
get_business_case(c, bc_id) ==
    IF bc_id \notin DOMAIN business_case THEN 404
    ELSE IF /\ users[c].role \notin {"Admin", "Manager"}
            /\ ~check_business_case_access(record_access, c, bc_id, "Read") THEN 403
    ELSE 200

\* POST /business-cases
create_business_case(c, bc, fault) ==
    LET id == NextId(DOMAIN business_case)
        db_bc == [created_by |-> c, lead_group_id |-> bc.lead_group_id,
                  status |-> bc.status, dept |-> bc.dept, updated_by |-> NULL]
    IN  IF fault = "commit"
        THEN Reject("create_business_case", 500, c)
        ELSE /\ Len(audit_log) < MaxAudit
             /\ id <= MaxRecords
             /\ business_case' = PutRow(business_case, id, db_bc)
             /\ audit_log_change("create_business_case", "CREATE", "business_case", c,
                                 NULL, id, Snapshot(db_bc), fault)
             /\ UNCHANGED <<users, procurement, memberships, record_access, budget_item,
                            line_item, wbs, asset, now>>

\* Python's truth value of bc_update.status: None (not set, or null) and
\* the empty string are false.
status_is_given(status) == status \notin {Unset, NoString, ""}

\* PUT /business-cases/{bc_id}
update_business_case(c, bc_id, bc_update, fault) ==
    IF bc_id \notin DOMAIN business_case
    THEN Reject("update_business_case", 404, c)
    ELSE IF /\ users[c].role \notin {"Admin", "Manager"}
            /\ ~check_business_case_access(record_access, c, bc_id, "Write")
    THEN Reject("update_business_case", 403, c)
    ELSE IF /\ status_is_given(bc_update.status)
            /\ bc_update.status # "Draft"
            /\ business_case[bc_id].status = "Draft"
            /\ LineItemsOf(bc_id) = {}
    THEN Reject("update_business_case", 400, c)
    ELSE IF fault # "none"
    THEN Reject("update_business_case", 500, c)
    ELSE /\ business_case' =
                PutRow(business_case, bc_id,
                       [business_case[bc_id] EXCEPT
                          !.status = IF bc_update.status = Unset THEN @
                                     ELSE bc_update.status,
                          !.updated_by = c])
         /\ resp' = Response("update_business_case", 200, c, bc_id)
         /\ UNCHANGED <<users, procurement, memberships, record_access, budget_item,
                        line_item, wbs, asset, audit_log, now>>

\* DELETE /business-cases/{bc_id}
delete_business_case(c, bc_id, fault) ==
    IF bc_id \notin DOMAIN business_case
    THEN Reject("delete_business_case", 404, c)
    ELSE IF users[c].role \notin {"Admin", "Manager"}
    THEN Reject("delete_business_case", 403, c)
    ELSE IF fault = "commit" \/ LineItemsOf(bc_id) # {}
    THEN Reject("delete_business_case", 500, c)
    ELSE /\ Len(audit_log) < MaxAudit
         /\ business_case' = DeleteRow(business_case, bc_id)
         /\ audit_log_change("delete_business_case", "DELETE", "business_case", c,
                             bc_id, bc_id, <<>>, fault)
         /\ UNCHANGED <<users, procurement, memberships, record_access, budget_item,
                        line_item, wbs, asset, now>>

(* ---------------------- routers/budget_items.py ------------------------ *)
\* POST /budget-items: the audit entry is built before the flush, with
\* record_id = None, and audit_log.record_id is NOT NULL: the commit fails.
create_budget_item(c, body) ==
    Reject("create_budget_item", 500, c)

\* GET /budget-items/{id}: the status of the response; the handler depends
\* on get_current_user only.
get_budget_item(c, id) ==
    IF id \notin DOMAIN budget_item THEN 404 ELSE 200

\* PUT /budget-items/{id}: the row and its audit entry go in one commit.
update_budget_item(c, id, budget_item_update, fault) ==
    IF id \notin DOMAIN budget_item
    THEN Reject("update_budget_item", 404, c)
    ELSE IF fault # "none"
    THEN Reject("update_budget_item", 500, c)
    ELSE LET old == budget_item[id]
             row == [old EXCEPT !.title = budget_item_update.title,
                                !.updated_by = c]
             audit_entry ==
                 [table_name |-> "budget_item", record_id |-> id,
                  action |-> "UPDATE", old_values |-> Snapshot(old),
                  new_values |-> Snapshot(row), user_id |-> c]
         IN  /\ Len(audit_log) < MaxAudit
             /\ budget_item' = PutRow(budget_item, id, row)
             /\ audit_log' = add_audit_entry(audit_log, audit_entry)
             /\ resp' = Response("update_budget_item", 200, c, id)
             /\ UNCHANGED <<users, procurement, memberships, record_access, business_case,
                            line_item, wbs, asset, now>>

(* ------------------ creation of the child records --------------------- *)
\* An owner group taken from the request body instead of the parent.
supplied_owner_group(parent, body) == body.owner_group_id

\* The owner_group_id of a new child record: the create handlers drop the
\* owner_group_id of the body (model_dump(exclude={'owner_group_id'})) and
\* pass owner_group_id=<parent>.owner_group_id.
inherited_owner_group(parent, body) == parent.owner_group_id

\* The row POST /business-case-line-items hands to the session:
\* BusinessCaseLineItem(**line_item.dict(), created_by=...), owner_group_id
\* being a required field of the body.
db_line_item(c, body) ==
    [business_case_id |-> body.business_case_id,
     budget_item_id |-> body.budget_item_id,
     owner_group_id |-> body.owner_group_id,
     created_by |-> c]

\* POST /business-case-line-items: the audit entry is built from
\* db_line_item.id before any flush (the session does not autoflush), so
\* its record_id is None, a NOT NULL column, and the commit of the line
\* item and the audit entry fails as a whole.
create_line_item(c, body) ==
    IF body.business_case_id \notin DOMAIN business_case
    THEN Reject("create_line_item", 404, c)
    ELSE IF body.budget_item_id \notin DOMAIN budget_item
    THEN Reject("create_line_item", 404, c)
    ELSE Reject("create_line_item", 500, c)

\* POST /wbs
create_wbs(c, body, fault) ==
    LET parent_id == body.business_case_line_item_id
        id == NextId(DOMAIN wbs)
    IN  IF parent_id \notin DOMAIN line_item
        THEN Reject("create_wbs", 404, c)
        ELSE IF ~can_create_child(record_access, c, "BusinessCaseLineItem", parent_id)
        THEN Reject("create_wbs", 403, c)
        ELSE IF fault = "commit"
        THEN Reject("create_wbs", 500, c)
        ELSE LET db_wbs == [business_case_line_item_id |-> parent_id,
                            owner_group_id |-> inherited_owner_group(line_item[parent_id], body),
                            created_by |-> c, status |-> body.status,
                            updated_by |-> NULL]
             IN  /\ Len(audit_log) < MaxAudit
                 /\ id <= MaxRecords
                 /\ wbs' = PutRow(wbs, id, db_wbs)
                 /\ audit_log_change("create_wbs", "CREATE", "wbs", c,
                                     NULL, id, Snapshot(db_wbs), fault)
                 /\ UNCHANGED <<users, procurement, memberships, record_access,
                                business_case, budget_item, line_item, asset, now>>

\* POST /assets
create_asset(c, body, fault) ==
    LET parent_id == body.wbs_id
        id == NextId(DOMAIN asset)
    IN  IF parent_id \notin DOMAIN wbs
        THEN Reject("create_asset", 404, c)
        ELSE IF ~can_create_child(record_access, c, "WBS", parent_id)
        THEN Reject("create_asset", 403, c)
        ELSE IF fault = "commit"
        THEN Reject("create_asset", 500, c)
        ELSE LET db_asset == [wbs_id |-> parent_id,
                              owner_group_id |-> inherited_owner_group(wbs[parent_id], body),
                              created_by |-> c, status |-> body.status,
                              updated_by |-> NULL]
             IN  /\ Len(audit_log) < MaxAudit
                 /\ id <= MaxRecords
                 /\ asset' = PutRow(asset, id, db_asset)
                 /\ audit_log_change("create_asset", "CREATE", "asset", c,
                                     NULL, id, Snapshot(db_asset), fault)
                 /\ UNCHANGED <<users, procurement, memberships, record_access,
                                business_case, budget_item, line_item, wbs, now>>

\* POST /purchase-orders
create_purchase_order(c, body, fault) ==
    LET parent_id == body.asset_id
        id == NextId(DOMAIN purchase_order)
    IN  IF parent_id \notin DOMAIN asset
        THEN Reject("create_purchase_order", 404, c)
        ELSE IF ~can_create_child(record_access, c, "Asset", parent_id)
        THEN Reject("create_purchase_order", 403, c)
        ELSE IF fault = "commit"
        THEN Reject("create_purchase_order", 500, c)
        ELSE LET db_po == [asset_id |-> parent_id,
                           owner_group_id |-> inherited_owner_group(asset[parent_id], body),
                           created_by |-> c]
             IN  /\ Len(audit_log) < MaxAudit
                 /\ id <= MaxRecords
                 /\ purchase_order' = PutRow(purchase_order, id, db_po)
                 /\ audit_log_change("create_purchase_order", "CREATE",
                                     "purchase_order", c, NULL, id, Snapshot(db_po), fault)
                 /\ UNCHANGED <<users, memberships, record_access, tables,
                                goods_receipt, resource, allocation, now>>

\* POST /goods-receipts
create_goods_receipt(c, body, fault) ==
    LET parent_id == body.po_id
        id == NextId(DOMAIN goods_receipt)
    IN  IF parent_id \notin DOMAIN purchase_order
        THEN Reject("create_goods_receipt", 404, c)
        ELSE IF ~can_create_child(record_access, c, "PurchaseOrder", parent_id)
        THEN Reject("create_goods_receipt", 403, c)
        ELSE IF fault = "commit"
        THEN Reject("create_goods_receipt", 500, c)
        ELSE LET db_gr == [po_id |-> parent_id,
                           owner_group_id |-> inherited_owner_group(purchase_order[parent_id], body),
                           created_by |-> c]
             IN  /\ Len(audit_log) < MaxAudit
                 /\ id <= MaxRecords
                 /\ goods_receipt' = PutRow(goods_receipt, id, db_gr)
                 /\ audit_log_change("create_goods_receipt", "CREATE",
                                     "goods_receipt", c, NULL, id, Snapshot(db_gr), fault)
                 /\ UNCHANGED <<users, memberships, record_access, tables,
                                purchase_order, resource, allocation, now>>

\* POST /allocations: both parents are checked, the owner group is the
\* purchase order's.
create_allocation(c, body, fault) ==
    LET id == NextId(DOMAIN allocation)
    IN  IF body.resource_id \notin DOMAIN resource
        THEN Reject("create_allocation", 404, c)
        ELSE IF body.po_id \notin DOMAIN purchase_order
        THEN Reject("create_allocation", 404, c)
        ELSE IF ~can_create_child(record_access, c, "Resource", body.resource_id)
        THEN Reject("create_allocation", 403, c)
        ELSE IF ~can_create_child(record_access, c, "PurchaseOrder", body.po_id)
        THEN Reject("create_allocation", 403, c)
        ELSE IF fault = "commit"
        THEN Reject("create_allocation", 500, c)
        ELSE LET db_alloc == [resource_id |-> body.resource_id, po_id |-> body.po_id,
                              owner_group_id |->
                                  inherited_owner_group(purchase_order[body.po_id], body),
                              created_by |-> c]
             IN  /\ Len(audit_log) < MaxAudit
                 /\ id <= MaxRecords
                 /\ allocation' = PutRow(allocation, id, db_alloc)
                 /\ audit_log_change("create_allocation", "CREATE",
                                     "resource_po_allocation", c, NULL, id,
                                     Snapshot(db_alloc), fault)
                 /\ UNCHANGED <<users, memberships, record_access, tables,
                                purchase_order, goods_receipt, resource, now>>

(* ----------------------- seeded databases ------------------------------ *)
NoRows == <<>>

NoMemberships == [m \in Users \X Groups |-> 0]

\* An asset owned by group 1, created by the Admin or by the User.
SeedAssets ==
    {(1 :> [wbs_id |-> NULL, owner_group_id |-> 1, created_by |-> c,
            status |-> "Active", updated_by |-> NULL]) : c \in {1, 2}}

\* A draft business case created by the Admin or by the User, with or
\* without a lead group.
SeedBusinessCases ==
    {(1 :> [created_by |-> c, lead_group_id |-> g, status |-> "Draft",
            dept |-> "IT", updated_by |-> NULL]) : c \in {1, 2}, g \in {NULL, 2}}

\* The budget item the line items draw on, owned by group 1.
SeedBudgetItems ==
    1 :> [owner_group_id |-> 1, created_by |-> 1, title |-> "t0", updated_by |-> NULL]

\* No line item, or one line item of business case 1 on budget item 1 (the
\* Admin's business case has the line item).
SeedLineItems ==
    {NoRows,
     1 :> [business_case_id |-> 1, budget_item_id |-> 1, owner_group_id |-> 1,
           created_by |-> 1]}

\* No purchase order, goods receipt, resource or allocation.
NoProcurement ==
    /\ purchase_order = NoRows /\ goods_receipt = NoRows
    /\ resource = NoRows /\ allocation = NoRows

InitCommon ==
    /\ users = SeedUsers
    /\ NoProcurement
    /\ memberships = NoMemberships
    /\ record_access = NoRows
    /\ audit_log = NoRows
    /\ now = 0
    /\ resp = Response("none", 0, NULL, NULL)

\* The specification of the decision engine: a seeded database holding
\* either one asset or one business case with its budget item, on which
\* grants and memberships are then administered through the API.
InitAccess ==
    /\ InitCommon
    /\ wbs = NoRows
    /\ \/ /\ asset \in SeedAssets
          /\ business_case = NoRows /\ budget_item = NoRows /\ line_item = NoRows
       \/ /\ asset = NoRows
          /\ business_case \in SeedBusinessCases
          /\ budget_item = SeedBudgetItems
          /\ line_item \in SeedLineItems
          /\ line_item # NoRows => business_case[1].created_by = 1

\* The record whose grants carry the access in the seeded database: the
\* asset, the budget item behind the line item, or else the business case.
GrantTargets ==
    IF DOMAIN asset # {} THEN {<<"Asset", 1>>}
    ELSE IF DOMAIN line_item # {} THEN {<<"BudgetItem", 1>>}
    ELSE {<<"BusinessCase", 1>>}

\* The group grants are given to, and the groups members are added to: the
\* owner group (1) of the asset, the owner group (1) of the budget item
\* behind the line item and the group (2) business cases name as lead.
GrantGroup == IF DOMAIN asset # {} THEN 1 ELSE 2
MemberGroups ==
    IF DOMAIN asset # {} THEN {1}
    ELSE IF DOMAIN line_item # {} THEN {1, 2}
    ELSE {2}

\* The non-admin users who are given memberships, and the one who is given
\* grants.
Principals == IF DOMAIN asset # {} THEN {2, 3} ELSE {2}
Grantees == {2}

\* The expires_at of the grants that expire: the first tick of the clock.
ExpiryTimes == {1}

\* The request bodies of POST /record-access that pass the Viewer policy: a
\* grant to one user or to one group, without expiry or expiring at the
\* first tick of the clock.
GrantInputs ==
    {a \in [record_type : {t[1] : t \in GrantTargets},
            record_id : {t[2] : t \in GrantTargets},
            user_id : Grantees \cup {NULL},
            group_id : {GrantGroup, NULL},
            access_level : Levels,
            expires_at : {NULL} \cup ExpiryTimes] :
        /\ (a.user_id = NULL) # (a.group_id = NULL)
        /\ a.user_id # NULL /\ users[a.user_id].role = "Viewer"
              => a.access_level = "Read"}

NextAccess ==
    \/ Tick
    \/ \E a \in GrantInputs : grant_access(1, a)
    \/ \E u \in Principals, g \in MemberGroups :
           /\ ~IsMember(u, g)
           /\ add_group_member(1, g, [user_id |-> u, group_id |-> g])

SpecAccess == InitAccess /\ [][NextAccess]_vars



(* ------------------- the audit-trail specification --------------------- *)
\* The seeded chain budget item 1 <- line item 1 -> business case 1, with
\* WBS 1 under the line item, all owned by group 1; the WBS was created by
\* the User.
SeedWbs ==
    1 :> [business_case_line_item_id |-> 1, owner_group_id |-> 1, created_by |-> 2,
          status |-> "Active", updated_by |-> NULL]

SeedChainCase ==
    1 :> [created_by |-> 1, lead_group_id |-> NULL, status |-> "Draft",
          dept |-> "IT", updated_by |-> NULL]

SeedChainLineItem ==
    1 :> [business_case_id |-> 1, budget_item_id |-> 1, owner_group_id |-> 1,
          created_by |-> 1]

\* The User belongs to group 2, the lead group of the business cases the
\* requests create.
SeedMemberships == [m \in Users \X Groups |-> IF m = <<2, 2>> THEN 1 ELSE 0]

\* The specification of the audit trail: a database holding one asset, or
\* the chain down to one WBS, or one budget item, or no record at all, on
\* which the Admin and the User create, update and delete records.
InitAudit ==
    /\ users = SeedUsers
    /\ NoProcurement
    /\ memberships = SeedMemberships
    /\ record_access = NoRows
    /\ audit_log = NoRows
    /\ now = 0
    /\ resp = Response("none", 0, NULL, NULL)
    /\ \/ /\ asset = (1 :> [wbs_id |-> NULL, owner_group_id |-> 1, created_by |-> 2,
                            status |-> "Active", updated_by |-> NULL])
          /\ wbs = NoRows /\ business_case = NoRows
          /\ budget_item = NoRows /\ line_item = NoRows
       \/ /\ wbs = SeedWbs /\ business_case = SeedChainCase
          /\ budget_item = SeedBudgetItems /\ line_item = SeedChainLineItem
          /\ asset = NoRows
       \/ /\ budget_item = SeedBudgetItems
          /\ asset = NoRows /\ wbs = NoRows
          /\ business_case = NoRows /\ line_item = NoRows
       \/ /\ asset = NoRows /\ wbs = NoRows /\ business_case = NoRows
          /\ budget_item = NoRows /\ line_item = NoRows

\* The callers of the audited requests, and the request bodies.
AuditCallers == {1, 2}
RecordStatuses == {"Active", "Retired"}
CaseStatuses == {"Draft", "Submitted"}
CaseBodies == {[lead_group_id |-> 2, status |-> "Draft", dept |-> "IT"]}
Titles == {"t0", "t1"}

NextAudit ==
    \/ \E c \in AuditCallers, id \in DOMAIN asset, st \in RecordStatuses, f \in Faults :
           update_asset(c, id, [status |-> st], f)
    \/ \E c \in AuditCallers, id \in DOMAIN asset, f \in Faults :
           delete_asset(c, id, f)
    \/ \E c \in AuditCallers, id \in DOMAIN wbs, st \in RecordStatuses, f \in Faults :
           update_wbs(c, id, [status |-> st], f)
    \/ \E c \in AuditCallers, b \in CaseBodies, f \in Faults :
           /\ DOMAIN asset = {} /\ DOMAIN budget_item = {}
           /\ create_business_case(c, b, f)
    \/ \E c \in AuditCallers, id \in DOMAIN business_case, st \in CaseStatuses,
          f \in {"none", "commit"} :
           /\ DOMAIN budget_item = {}
           /\ update_business_case(c, id, [status |-> st], f)
    \/ \E c \in AuditCallers, id \in DOMAIN business_case, f \in Faults :
           /\ DOMAIN budget_item = {}
           /\ delete_business_case(c, id, f)
    \/ \E c \in AuditCallers :
           /\ DOMAIN budget_item # {} /\ DOMAIN wbs = {}
           /\ create_budget_item(c, [owner_group_id |-> 1, title |-> "t0"])
    \/ \E c \in AuditCallers, id \in DOMAIN budget_item, t \in Titles,
          f \in {"none", "commit"} :
           /\ DOMAIN wbs = {}
           /\ update_budget_item(c, id, [title |-> t], f)

SpecAudit == InitAudit /\ [][NextAudit]_vars

(* ------------------ the child-creation specification ------------------ *)
\* The seeded chain continued below the WBS: asset 1 under WBS 1 and
\* purchase order 1 under asset 1, owned by group 1 like their parents, and
\* a resource owned by group 2.
SeedChainAsset ==
    1 :> [wbs_id |-> 1, owner_group_id |-> 1, created_by |-> 1,
          status |-> "Active", updated_by |-> NULL]

SeedPurchaseOrder == 1 :> [asset_id |-> 1, owner_group_id |-> 1, created_by |-> 1]

SeedResource == 1 :> [owner_group_id |-> 2, created_by |-> 1]

\* The Viewer belongs to group 1, the owner group of the chain.
SeedViewerMemberships ==
    [m \in Users \X Groups |-> IF m = <<3, 1>> THEN 1 ELSE 0]

\* The specification of child creation: the seeded chain down to some
\* level (line item, WBS, asset, purchase order, purchase order and
\* resource), under which the principals create the next records while the
\* Admin administers grants and memberships.
InitCreate ==
    /\ users = SeedUsers
    /\ memberships = SeedViewerMemberships
    /\ record_access = NoRows
    /\ audit_log = NoRows
    /\ now = 0
    /\ resp = Response("none", 0, NULL, NULL)
    /\ business_case = SeedChainCase
    /\ budget_item = SeedBudgetItems
    /\ line_item = SeedChainLineItem
    /\ goods_receipt = NoRows /\ allocation = NoRows
    /\ \/ /\ wbs = NoRows /\ asset = NoRows
          /\ purchase_order = NoRows /\ resource = NoRows
       \/ /\ wbs = SeedWbs /\ asset = NoRows
          /\ purchase_order = NoRows /\ resource = NoRows
       \/ /\ wbs = SeedWbs /\ asset = SeedChainAsset
          /\ purchase_order = NoRows /\ resource = NoRows
       \/ /\ wbs = SeedWbs /\ asset = SeedChainAsset
          /\ purchase_order = SeedPurchaseOrder /\ resource = NoRows
       \/ /\ wbs = SeedWbs /\ asset = SeedChainAsset
          /\ purchase_order = SeedPurchaseOrder /\ resource = SeedResource

\* The parents of the records created next: the deepest records of the chain.
CreateParents ==
    IF DOMAIN resource # {} THEN {<<"Resource", 1>>, <<"PurchaseOrder", 1>>}
    ELSE IF DOMAIN purchase_order # {} THEN {<<"PurchaseOrder", 1>>}
    ELSE IF DOMAIN asset # {} THEN {<<"Asset", 1>>}
    ELSE IF DOMAIN wbs # {} THEN {<<"WBS", 1>>}
    ELSE {<<"BusinessCaseLineItem", 1>>}

\* The grants the Admin gives on a parent: to the User at any level, with
\* or without expiry, or Write to group 2.
ParentGrantInputs ==
    {a \in [record_type : {t[1] : t \in CreateParents},
            record_id : {1},
            user_id : {2, NULL},
            group_id : {2, NULL},
            access_level : Levels,
            expires_at : {NULL} \cup ExpiryTimes] :
        /\ <<a.record_type, a.record_id>> \in CreateParents
        /\ (a.user_id = NULL) # (a.group_id = NULL)
        /\ a.group_id # NULL => a.access_level = "Write" /\ a.expires_at = NULL}

\* The callers of the create requests (the User, the Viewer and the
\* Manager), and the owner_group_id they supply.
CreateCallers == {2, 3, 4}
SuppliedGroups == Groups

\* The bodies of the line-item requests: an existing or a missing business
\* case and budget item, and either group.
LineItemBodies ==
    [business_case_id : {1, 2}, budget_item_id : {1, 2},
     owner_group_id : SuppliedGroups]

NextCreate ==
    \/ Tick
    \/ \E c \in CreateCallers, body \in LineItemBodies :
           /\ DOMAIN wbs = {}
           /\ create_line_item(c, body)
    \/ \E a \in ParentGrantInputs :
           /\ Len(record_access) < MaxParentGrants
           /\ grant_access(1, a)
    \/ \E g \in Groups :
           /\ ~IsMember(2, g)
           /\ add_group_member(1, g, [user_id |-> 2, group_id |-> g])
    \/ \E c \in CreateCallers, p \in DOMAIN line_item, x \in SuppliedGroups :
           /\ DOMAIN asset = {}
           /\ Len(audit_log) < MaxCreated
           /\ create_wbs(c, [business_case_line_item_id |-> p, owner_group_id |-> x,
                             status |-> "Active"], "none")
    \/ \E c \in CreateCallers, p \in DOMAIN wbs, x \in SuppliedGroups :
           /\ DOMAIN purchase_order = {}
           /\ Len(audit_log) < MaxCreated
           /\ create_asset(c, [wbs_id |-> p, owner_group_id |-> x,
                               status |-> "Active"], "none")
    \/ \E c \in CreateCallers, p \in DOMAIN asset, x \in SuppliedGroups :
           /\ DOMAIN resource = {}
           /\ Len(audit_log) < MaxCreated
           /\ create_purchase_order(c, [asset_id |-> p, owner_group_id |-> x], "none")
    \/ \E c \in CreateCallers, p \in DOMAIN purchase_order, x \in SuppliedGroups :
           /\ DOMAIN resource = {}
           /\ Len(audit_log) < MaxCreated
           /\ create_goods_receipt(c, [po_id |-> p, owner_group_id |-> x], "none")
    \/ \E c \in CreateCallers, r \in DOMAIN resource, p \in DOMAIN purchase_order,
          x \in SuppliedGroups :
           /\ Len(audit_log) < MaxCreated
           /\ create_allocation(c, [resource_id |-> r, po_id |-> p,
                                    owner_group_id |-> x], "none")

SpecCreate == InitCreate /\ [][NextCreate]_vars

(* ---------------------- role specification ---------------------------- *)
\* The roles the Admin gives user 3: a string outside the four roles, or
\* Viewer again; or no role in the body.
GivenRoles == {"Guest", "Viewer", NoString}

\* The callers of the user update: the Admin, the User and user 3.
RoleCallers == {1, 2, 3}

\* Child creation as in SpecCreate, while the Admin changes the role of
\* user 3, the member of the owner group of the chain.
NextRoles ==
    \/ \E c \in RoleCallers, role \in GivenRoles :
           update_user(c, 3, [department |-> NoString, role |-> role])
    \/ NextCreate

SpecRoles == InitCreate /\ [][NextRoles]_vars

(* ---------------- grant administration specification ------------------ *)
\* The largest number of grants the grant administration holds at a time.
MaxPolicyGrants == 1

\* The callers of grant: the Admin, the User (creator of WBS 1) and the
\* Viewer; of revoke and update: the User, the Viewer and the Manager.
GrantCallers == {1, 2, 3}
ModifyCallers == {2, 3, 4}

\* RecordAccessCreate bodies on WBS 1: the subject user is the Viewer or
\* absent, the subject group is group 1 or absent.
PolicyGrantInputs ==
    [record_type : {"WBS"}, record_id : {1}, user_id : {3, NULL},
     group_id : {1, NULL}, access_level : Levels, expires_at : {NULL}]

\* RecordAccessUpdate bodies: a new level or none, the expiry left as it is.
PolicyUpdateInputs ==
    [access_level : Levels \cup {NoString}, expires_at : {NULL}]

\* The grant ids requests name: ids of stored grants and one that is not.
AccessIds == 1 .. (MaxPolicyGrants + 1)

InitGrants ==
    /\ users = SeedUsers
    /\ NoProcurement
    /\ memberships = SeedViewerMemberships
    /\ record_access = NoRows
    /\ audit_log = NoRows
    /\ now = 0
    /\ resp = Response("none", 0, NULL, NULL)
    /\ wbs = SeedWbs /\ business_case = SeedChainCase
    /\ budget_item = SeedBudgetItems /\ line_item = SeedChainLineItem
    /\ asset = NoRows

NextGrants ==
    \/ \E c \in GrantCallers, a \in PolicyGrantInputs :
           /\ Len(record_access) < MaxPolicyGrants
           /\ grant_access(c, a)
    \/ \E c \in ModifyCallers, access_id \in AccessIds :
           revoke_access(c, access_id)
    \/ \E c \in ModifyCallers, access_id \in AccessIds, u \in PolicyUpdateInputs :
           update_access(c, access_id, u)

SpecGrants == InitGrants /\ [][NextGrants]_vars

(* ---------------- status transition specification -------------------- *)
\* Business case 1, a draft of the Admin with lead group 2.
SeedLedCase ==
    1 :> [created_by |-> 1, lead_group_id |-> 2, status |-> "Draft",
          dept |-> "IT", updated_by |-> NULL]

\* The callers of the update: the User (member of the lead group), the
\* Viewer and the Manager.
CaseCallers == {2, 3, 4}

\* The status of a BusinessCaseUpdate body: a status, the empty string,
\* null, or not set.
UpdateStatuses == {"Draft", "Submitted", "Approved", "", NoString, Unset}

\* The business case ids the requests name: the stored one and one that
\* is not.
CaseIds == {1, 2}

\* A draft with or without lead group, without line items or with line
\* item 1 on budget item 1.
InitCases ==
    /\ users = SeedUsers
    /\ NoProcurement
    /\ memberships = SeedMemberships
    /\ record_access = NoRows
    /\ audit_log = NoRows
    /\ now = 0
    /\ resp = Response("none", 0, NULL, NULL)
    /\ business_case \in {SeedLedCase, SeedChainCase}
    /\ budget_item = SeedBudgetItems
    /\ line_item \in SeedLineItems
    /\ wbs = NoRows /\ asset = NoRows

NextCases ==
    \E c \in CaseCallers, bc_id \in CaseIds, st \in UpdateStatuses :
        update_business_case(c, bc_id, [status |-> st], "none")

SpecCases == InitCases /\ [][NextCases]_vars

(* ======================= the decision engine =========================== *)
\* The decisions against the current state of the tables.
Decide(u, record_type, record_id, level) ==
    check_record_access(record_access, u, record_type, record_id, level)

DecideBC(u, bc_id, level) ==
    check_business_case_access(record_access, u, bc_id, level)

\* The record ids requests name: the seeded id and an id no table holds.
RequestIds == {1, 2}

\* The non-expired grants on a record that apply to u, directly or through
\* one of u's groups.
ApplicableGrants(u, record_type, record_id) ==
    {i \in DOMAIN record_access :
        /\ record_access[i].record_type = record_type
        /\ record_access[i].record_id = record_id
        /\ \/ record_access[i].user_id = u
           \/ record_access[i].group_id \in user_group_ids(u)
        /\ \/ record_access[i].expires_at = NULL
           \/ record_access[i].expires_at > now}

\* u holds a non-expired grant of level >= level on the record.
HoldsGrant(u, record_type, record_id, level) ==
    \E i \in ApplicableGrants(u, record_type, record_id) :
        access_levels(record_access[i].access_level, 0) >= access_levels(level, 2)

\* C1: the generic decision is monotone in the level: for a principal who
\* is neither Admin nor Manager and any record type and id, an Allow for
\* Full implies an Allow for Write, which implies an Allow for Read.
C1_GenericLevelMonotone ==
    \A u \in NonAdmins, t \in ModelClasses, id \in RequestIds :
        /\ Decide(u, t, id, "Full") => Decide(u, t, id, "Write")
        /\ Decide(u, t, id, "Write") => Decide(u, t, id, "Read")

\* C1 witness: a principal who is neither creator nor member of the owner
\* group is allowed Write (and Read) on the asset through a grant.
C1_Witness ==
    \E u \in NonAdmins :
        /\ RecordExists("Asset", 1)
        /\ asset[1].created_by # u
        /\ ~IsMember(u, asset[1].owner_group_id)
        /\ Decide(u, "Asset", 1, "Write")
        /\ Decide(u, "Asset", 1, "Read")

\* C2: the business-case decision is monotone in the level for every
\* principal who is neither Admin nor Manager, a member of the lead group
\* with no other relationship to the business case included.
C2_HybridLevelMonotone ==
    \A u \in NonAdmins, bc \in DOMAIN business_case :
        /\ DecideBC(u, bc, "Full") => DecideBC(u, bc, "Write")
        /\ DecideBC(u, bc, "Write") => DecideBC(u, bc, "Read")

\* C3: the effective level is the maximum: a principal who holds some
\* non-expired grant of level >= L on a record (directly or through a
\* group, duplicates included) is allowed L, as far as the role cap of the
\* generic decision and the lead-group gate's own grant test go.
C3_EffectiveLevelIsMax ==
    /\ \A u \in NonAdmins, t \in ModelClasses, id \in RequestIds, l \in Levels :
           /\ access_levels(l, 2) <= role_caps(users[u].role)
           /\ HoldsGrant(u, t, id, l)
           => Decide(u, t, id, l)
    /\ \A u \in NonAdmins, bc \in DOMAIN business_case, l \in Levels :
           HoldsGrant(u, "BusinessCase", bc, l) => DecideBC(u, bc, l)

\* The state of record_access without its i-th row.
WithoutGrant(i) == RemoveAt(record_access, i)

ExpiredGrants ==
    {i \in DOMAIN record_access :
        record_access[i].expires_at # NULL /\ record_access[i].expires_at <= now}

CreatorOnly(u, bc) ==
    /\ business_case[bc].created_by = u
    /\ LineItemsOf(bc) = {}
    /\ ApplicableGrants(u, "BusinessCase", bc) = {}

\* C8 as stated: the creator is allowed Read, and on a business case with
\* no line items and no grant applying to the creator Write is denied.
C8_CreatorReadOnly ==
    \A u \in NonAdmins, bc \in DOMAIN business_case :
        business_case[bc].created_by = u =>
            /\ DecideBC(u, bc, "Read")
            /\ CreatorOnly(u, bc) => ~DecideBC(u, bc, "Write")

\* C8 amended: the creator is allowed Read; on a business case with no line
\* items and no grant applying to the creator, Write is denied unless the
\* creator is a member of the lead group, and Full is denied.
C8_CreatorReadOnlyUnlessLead ==
    \A u \in NonAdmins, bc \in DOMAIN business_case :
        business_case[bc].created_by = u =>
            /\ DecideBC(u, bc, "Read")
            /\ CreatorOnly(u, bc) =>
                  /\ ~DecideBC(u, bc, "Full")
                  /\ DecideBC(u, bc, "Write")
                       <=> /\ business_case[bc].lead_group_id # NULL
                           /\ IsMember(u, business_case[bc].lead_group_id)

\* C8 witness: the grant the creator was given on the business case has
\* expired; with no line items and no membership of the lead group the
\* creator reads the business case and is denied Write.
C8_Witness ==
    \E u \in NonAdmins, bc \in DOMAIN business_case, i \in ExpiredGrants :
        /\ record_access[i].record_type = "BusinessCase"
        /\ record_access[i].record_id = bc
        /\ record_access[i].user_id = u
        /\ record_access[i].access_level = "Write"
        /\ CreatorOnly(u, bc)
        /\ business_case[bc].lead_group_id # NULL
        /\ ~IsMember(u, business_case[bc].lead_group_id)
        /\ DecideBC(u, bc, "Read")
        /\ ~DecideBC(u, bc, "Write")

\* C9: with a lead group set, Write is allowed iff the principal is a
\* member of the lead group or holds a non-expired BusinessCase-level grant
\* of level >= Write; line items do not substitute.
C9_LeadGroupGate ==
    \A u \in NonAdmins, bc \in DOMAIN business_case :
        business_case[bc].lead_group_id # NULL =>
            (DecideBC(u, bc, "Write")
               <=> \/ IsMember(u, business_case[bc].lead_group_id)
                   \/ HoldsGrant(u, "BusinessCase", bc, "Write"))

\* u is covered by a line item of the business case at the level: member of
\* the owner group of its budget item, or holder of a sufficient grant on it.
CoveredByLineItem(u, bc, level) ==
    \E li \in LineItemsOf(bc) :
        LET b == line_item[li].budget_item_id
        IN  \/ IsMember(u, budget_item[b].owner_group_id)
            \/ HoldsGrant(u, "BudgetItem", b, level)

\* C10: for Read, or for Write/Full without a lead group, a principal
\* covered by a line item is allowed, and a principal who is neither
\* creator, nor covered, nor holder of a sufficient BusinessCase-level grant
\* is denied.
C10_LineItemPath ==
    \A u \in NonAdmins, bc \in DOMAIN business_case, l \in Levels :
        (l = "Read" \/ business_case[bc].lead_group_id = NULL) =>
            /\ CoveredByLineItem(u, bc, l) => DecideBC(u, bc, l)
            /\ /\ business_case[bc].created_by # u
               /\ ~CoveredByLineItem(u, bc, l)
               /\ ~HoldsGrant(u, "BusinessCase", bc, l)
               => ~DecideBC(u, bc, l)

(* ========================= the audit trail ============================= *)
\* The handlers that create, update or delete an owned record, with the
\* table and the action their audit entry has to name.
MutationOps ==
    {"update_asset", "delete_asset", "update_wbs", "create_business_case",
     "update_business_case", "delete_business_case", "create_budget_item",
     "update_budget_item"}

AuditedTable(op) ==
    CASE op \in {"update_asset", "delete_asset"} -> "asset"
      [] op = "update_wbs" -> "wbs"
      [] op \in {"create_business_case", "update_business_case",
                 "delete_business_case"} -> "business_case"
      [] op \in {"create_budget_item", "update_budget_item"} -> "budget_item"

AuditedAction(op) ==
    CASE op \in {"create_business_case", "create_budget_item"} -> "CREATE"
      [] op \in {"update_asset", "update_wbs", "update_business_case",
                 "update_budget_item"} -> "UPDATE"
      [] op \in {"delete_asset", "delete_business_case"} -> "DELETE"

\* The rows of the table an audit entry names, in a value of `tables`.
RowsOf(tbls, table_name) ==
    CASE table_name = "business_case" -> tbls[1]
      [] table_name = "budget_item" -> tbls[2]
      [] table_name = "business_case_line_item" -> tbls[3]
      [] table_name = "wbs" -> tbls[4]
      [] table_name = "asset" -> tbls[5]

\* C5: every successful create, update or delete appends exactly one audit
\* entry whose table_name, record_id, action and actor match the mutation.
C5_AuditComplete ==
    [][resp'.op \in MutationOps /\ resp'.status = 200 =>
          /\ Len(audit_log') = Len(audit_log) + 1
          /\ SubSeq(audit_log', 1, Len(audit_log)) = audit_log
          /\ LET e == audit_log'[Len(audit_log')]
             IN  /\ e.table_name = AuditedTable(resp'.op)
                 /\ e.record_id = resp'.record_id
                 /\ e.action = AuditedAction(resp'.op)
                 /\ e.user_id = resp'.user]_vars

\* C6: a mutation and its audit entry become durable together or not at
\* all: a request that fails, the failure of the audit write included,
\* leaves the tables as they were.
C6_AuditAtomic ==
    [][resp'.op \in MutationOps /\ resp'.status = 500 => tables' = tables]_vars

\* C7: the entry a request appends carries the snapshots: old_values of an
\* UPDATE or DELETE is non-null and is the row as it was before the write,
\* new_values of an UPDATE is the row after the write, old_values of a
\* CREATE and new_values of a DELETE are null.
C7_BeforeSnapshot ==
    [][Len(audit_log') = Len(audit_log) + 1 =>
          LET e == audit_log'[Len(audit_log')]
              before == RowsOf(tables, e.table_name)
              after == RowsOf(tables', e.table_name)
          IN  /\ e.action \in {"UPDATE", "DELETE"} =>
                    /\ e.old_values # <<>>
                    /\ e.record_id \in DOMAIN before
                    /\ e.old_values = Snapshot(before[e.record_id])
              /\ e.action = "UPDATE" =>
                    /\ e.record_id \in DOMAIN after
                    /\ e.new_values = Snapshot(after[e.record_id])
              /\ e.action = "CREATE" => e.old_values = <<>>
              /\ e.action = "DELETE" => e.new_values = <<>>]_vars

(* ======================== child creation =============================== *)
\* The create handlers of the child records, the table each inserts into,
\* and the parent a row of that table names.
CreateOps ==
    {"create_wbs", "create_asset", "create_purchase_order",
     "create_goods_receipt", "create_allocation"}

\* The row a successful create request has inserted.
CreatedRow(op, id) ==
    CASE op = "create_wbs" -> wbs[id]
      [] op = "create_asset" -> asset[id]
      [] op = "create_purchase_order" -> purchase_order[id]
      [] op = "create_goods_receipt" -> goods_receipt[id]
      [] op = "create_allocation" -> allocation[id]

\* The parent whose owner group the row inherits.
OwnerParent(op, row) ==
    CASE op = "create_wbs" -> line_item[row.business_case_line_item_id]
      [] op = "create_asset" -> wbs[row.wbs_id]
      [] op = "create_purchase_order" -> asset[row.asset_id]
      [] op = "create_goods_receipt" -> purchase_order[row.po_id]
      [] op = "create_allocation" -> purchase_order[row.po_id]

\* The step serves a create request for a child record: its response is
\* that of a create handler and the clock, which no handler moves, stands.
CreateStep == resp'.op \in CreateOps /\ now' = now

\* The row the last response reports as created.
LastCreated == CreatedRow(resp.op, resp.record_id)

\* C11: every WBS, asset, purchase order, goods receipt and allocation a
\* create request inserts has the owner_group_id its parent (line item, WBS,
\* asset, purchase order, purchase order) had at that moment, whatever
\* owner_group_id the request supplied.
C11_ChildInheritsOwnerGroup ==
    [][CreateStep /\ resp'.status = 200 =>
          LastCreated'.owner_group_id
              = OwnerParent(resp'.op, LastCreated').owner_group_id]_vars

\* C11 witness: an allocation has been created under purchase order 1
\* (group 1) and resource 1 (group 2) and carries group 1.
C11_Witness ==
    /\ resp.op = "create_allocation" /\ resp.status = 200
    /\ allocation[resp.record_id].owner_group_id = 1
    /\ resource[allocation[resp.record_id].resource_id].owner_group_id = 2
    /\ purchase_order[allocation[resp.record_id].po_id].owner_group_id = 1

\* C12: the line item create_line_item builds for a request naming an
\* existing business case and budget item has the owner_group_id of that
\* budget item, whatever owner_group_id the request supplied.
C12_LineItemInheritsOwnerGroup ==
    \A c \in CreateCallers, body \in LineItemBodies :
        /\ body.business_case_id \in DOMAIN business_case
        /\ body.budget_item_id \in DOMAIN budget_item
        => db_line_item(c, body).owner_group_id
               = budget_item[body.budget_item_id].owner_group_id

\* The parents a created row names: record type and id.
ParentsOf(op, row) ==
    CASE op = "create_wbs" -> {<<"BusinessCaseLineItem", row.business_case_line_item_id>>}
      [] op = "create_asset" -> {<<"WBS", row.wbs_id>>}
      [] op = "create_purchase_order" -> {<<"Asset", row.asset_id>>}
      [] op = "create_goods_receipt" -> {<<"PurchaseOrder", row.po_id>>}
      [] op = "create_allocation" ->
             {<<"Resource", row.resource_id>>, <<"PurchaseOrder", row.po_id>>}

\* u is a member of the parent's owner group or holds a non-expired Write
\* or Full grant on the parent, directly or through a group.
EntitledOnParent(u, parent) ==
    \/ IsMember(u, Table(parent[1])[parent[2]].owner_group_id)
    \/ HoldsGrant(u, parent[1], parent[2], "Write")

SubjectIsViewer(user_id) ==
    user_id # NULL /\ user_id \in DOMAIN users /\ users[user_id].role = "Viewer"

\* No step stores Write or Full on a grant whose subject user is a Viewer:
\* every row that is new or changed after the step and names a Viewer has
\* level Read.
NeverStoresAboveRead ==
    \A i \in DOMAIN record_access' :
        /\ record_access'[i] \notin Range(record_access)
        /\ SubjectIsViewer(record_access'[i].user_id)
        => record_access'[i].access_level = "Read"

\* A grant request of Write or Full to a Viewer fails with 400 and leaves
\* the grants unchanged, whoever the caller is.
GrantToViewerRefused ==
    resp'.op = "grant_access" =>
        \A a \in PolicyGrantInputs :
            /\ SubjectIsViewer(a.user_id) /\ a.access_level \in {"Write", "Full"}
            /\ grant_access(resp'.user, a)
            => resp'.status = 400 /\ UNCHANGED record_access

\* A grant request of Read to a Viewer by the Admin, a Manager or the
\* creator of the record succeeds and stores the grant.
GrantReadToViewerSucceeds ==
    resp'.op = "grant_access" =>
        \A a \in PolicyGrantInputs :
            /\ SubjectIsViewer(a.user_id) /\ a.access_level = "Read"
            /\ \/ users[resp'.user].role \in {"Admin", "Manager"}
               \/ Table(a.record_type)[a.record_id].created_by = resp'.user
            /\ grant_access(resp'.user, a)
            => /\ resp'.status = 200
               /\ \E i \in DOMAIN record_access' :
                      /\ record_access'[i].id = resp'.record_id
                      /\ record_access'[i].user_id = a.user_id
                      /\ record_access'[i].access_level = "Read"

\* The update requests that ask for Write or Full on a stored grant whose
\* subject user is a Viewer.
ViewerUpdateRequest(access_id, u) ==
    /\ AccessIndex(access_id) # 0
    /\ SubjectIsViewer(record_access[AccessIndex(access_id)].user_id)
    /\ u.access_level \in {"Write", "Full"}

\* The caller is Admin, Manager or the principal recorded as granted_by.
MayModify(c, access_id) ==
    \/ users[c].role \in {"Admin", "Manager"}
    \/ record_access[AccessIndex(access_id)].granted_by = c

\* C14 as stated: no grant or update stores Write or Full on a grant whose
\* subject user is a Viewer; such a grant or update request fails with 400
\* and leaves the grants unchanged whoever the caller is; granting Read to
\* a Viewer succeeds.
C14_ViewerGrantPolicy ==
    [][/\ NeverStoresAboveRead
       /\ GrantToViewerRefused
       /\ GrantReadToViewerSucceeds
       /\ resp'.op = "update_access" =>
              \A access_id \in AccessIds, u \in PolicyUpdateInputs :
                  /\ ViewerUpdateRequest(access_id, u)
                  /\ update_access(resp'.user, access_id, u)
                  => resp'.status = 400 /\ UNCHANGED record_access]_vars

\* C14 with the caller of update taken into account: no grant or update
\* stores Write or Full on a grant whose subject user is a Viewer; such a
\* grant request fails with 400 whoever the caller is; such an update
\* request fails with 400 when the caller is Admin, Manager or the grantor
\* and with 403 otherwise; the grants are unchanged in each case; granting
\* Read to a Viewer succeeds.
C14_ViewerGrantPolicyAuthorized ==
    [][/\ NeverStoresAboveRead
       /\ GrantToViewerRefused
       /\ GrantReadToViewerSucceeds
       /\ resp'.op = "update_access" =>
              \A access_id \in AccessIds, u \in PolicyUpdateInputs :
                  /\ ViewerUpdateRequest(access_id, u)
                  /\ update_access(resp'.user, access_id, u)
                  => /\ resp'.status = IF MayModify(resp'.user, access_id)
                                       THEN 400 ELSE 403
                     /\ UNCHANGED record_access]_vars

\* C14 witness: the Viewer holds a Read grant and an update of a grant by
\* an authorized caller has just been refused with 400.
C14_Witness ==
    /\ resp.op = "update_access" /\ resp.status = 400
    /\ users[resp.user].role = "Manager"
    /\ \E i \in DOMAIN record_access :
           /\ SubjectIsViewer(record_access[i].user_id)
           /\ record_access[i].access_level = "Read"

\* C15: revoking or updating a grant succeeds only when the caller is
\* Admin, Manager or the principal recorded as the grant's granted_by; any
\* other caller gets 403 and the grants are left unchanged; an unknown
\* grant id yields 404; a successful revoke removes the grant, so that
\* every decision after it is the decision without the grant.
C15_RevokeUpdateAuthorization ==
    [][resp'.op \in {"revoke_access", "update_access"} =>
          /\ resp'.status = 200 => MayModify(resp'.user, resp'.record_id)
          /\ \A access_id \in AccessIds, u \in PolicyUpdateInputs :
                 \/ revoke_access(resp'.user, access_id)
                 \/ update_access(resp'.user, access_id, u)
                 => /\ AccessIndex(access_id) = 0 <=> resp'.status = 404
                    /\ AccessIndex(access_id) # 0 /\ ~MayModify(resp'.user, access_id)
                           => resp'.status = 403 /\ UNCHANGED record_access
          /\ resp'.op = "revoke_access" /\ resp'.status = 200 =>
                 LET without == WithoutGrant(AccessIndex(resp'.record_id))
                 IN  /\ record_access' = without
                     /\ \A i \in DOMAIN record_access' :
                            record_access'[i].id # resp'.record_id
                     /\ \A p \in NonAdmins, level \in Levels :
                            Decide(p, "WBS", 1, level)'
                                = check_record_access(without, p, "WBS", 1, level)]_vars

\* C15 witness: the User, who can only be the grantor, has revoked a grant.
C15_Witness ==
    /\ resp.op = "revoke_access" /\ resp.status = 200
    /\ users[resp.user].role = "User"

(* ===================== budget item scenario ============================ *)
\* u has role User, did not create budget item id, is in no group that
\* owns it and holds no non-expired grant on it of the level or above.
StrangerTo(u, id, level) ==
    /\ users[u].role = "User"
    /\ budget_item[id].created_by # u
    /\ ~IsMember(u, budget_item[id].owner_group_id)
    /\ ~HoldsGrant(u, "BudgetItem", id, level)

\* C16: a User who is not in the owner group of a budget item, did not
\* create it and has no grant is denied Read on it (GET answers 403); with
\* a Read grant the GET is allowed; and no User without a Write grant,
\* membership or authorship has updated the budget item.
C16_BudgetItemScenario ==
    \A u \in Users, id \in DOMAIN budget_item :
        /\ StrangerTo(u, id, "Read") => get_budget_item(u, id) = 403
        /\ users[u].role = "User" /\ HoldsGrant(u, "BudgetItem", id, "Read")
               => get_budget_item(u, id) = 200
        /\ StrangerTo(u, id, "Write")
               => ~(/\ resp.op = "update_budget_item" /\ resp.status = 200
                    /\ resp.user = u /\ resp.record_id = id)

(* ======================= status transition ============================= *)
\* c may write business case bc_id: Admin, Manager, or allowed Write by
\* the business-case decision.
Writer(c, bc_id) ==
    \/ users[c].role \in {"Admin", "Manager"}
    \/ DecideBC(c, bc_id, "Write")

\* The statuses a request moves a business case to that are not Draft.
NonDraftStatuses == UpdateStatuses \ {"Draft", Unset}

\* C17: no update moves a business case with status Draft and zero line
\* items to a non-Draft status; such a request by a principal with Write
\* access gets 400 and leaves the business case unchanged, by a principal
\* without Write access it gets 403; with at least one line item the same
\* update by a writer succeeds.
C17_DraftStatusTransition ==
    [][resp'.op = "update_business_case" =>
          /\ \A bc_id \in DOMAIN business_case :
                 business_case[bc_id].status = "Draft" /\ LineItemsOf(bc_id) = {}
                 => business_case'[bc_id].status = "Draft"
          /\ \A bc_id \in DOMAIN business_case, st \in NonDraftStatuses :
                 /\ business_case[bc_id].status = "Draft"
                 /\ update_business_case(resp'.user, bc_id, [status |-> st], "none")
                 => IF ~Writer(resp'.user, bc_id)
                    THEN resp'.status = 403 /\ UNCHANGED business_case
                    ELSE IF LineItemsOf(bc_id) = {}
                    THEN resp'.status = 400 /\ UNCHANGED business_case
                    ELSE resp'.status = 200 /\ business_case'[bc_id].status = st]_vars

(* ========================= grant subjects ============================== *)
\* C18: every stored grant has exactly one subject: user_id set and
\* group_id null, or group_id set and user_id null.
C18_ExactlyOneSubject ==
    \A i \in DOMAIN record_access :
        (record_access[i].user_id = NULL) # (record_access[i].group_id = NULL)

C21_NoExistenceLeak ==
    \A u \in NonAdmins, bc_id \in DOMAIN business_case,
       missing \in CaseIds \ DOMAIN business_case :
        ~DecideBC(u, bc_id, "Read")
        => get_business_case(u, bc_id) = get_business_case(u, missing)

(* ========================== audit log ================================== *)
\* C22: the audit log is append-only: after every step the entries that
\* were there before are still there, in place and with the field values
\* they were written with; the log only grows.
C22_AuditAppendOnly ==
    [][/\ Len(audit_log') >= Len(audit_log)
       /\ SubSeq(audit_log', 1, Len(audit_log)) = audit_log]_vars

\* C22 witness: a second entry has been written on the record the first
\* entry is about, and the first entry still shows the earlier write.
C22_Witness ==
    /\ Len(audit_log) = 2
    /\ audit_log[1].table_name = audit_log[2].table_name
    /\ audit_log[1].record_id = audit_log[2].record_id
    /\ audit_log[1] # audit_log[2]

(* ====================== grants up to Full ============================== *)
\* C23: a principal with role User who holds a non-expired grant, direct or
\* through a group, of a level at or above the required one on a stored
\* record is allowed by the generic decision, at every required level, Full
\* included.
C23_GrantAllowsUpToFull ==
    \A u \in Users, t \in ModelClasses, id \in RequestIds, level \in Levels :
        /\ users[u].role = "User"
        /\ RecordExists(t, id)
        /\ HoldsGrant(u, t, id, level)
        => Decide(u, t, id, level)

(* ========================== creator rule =============================== *)
\* C24: for every record type other than BusinessCase, a principal who is
\* neither Admin nor Manager and is the created_by of a stored record is
\* allowed by the generic decision at every required level, whatever the
\* principal's role, memberships and grants.
C24_CreatorAllowed ==
    \A u \in NonAdmins, t \in ModelClasses \ {"BusinessCase"}, id \in RequestIds,
       level \in Levels :
        RecordExists(t, id) /\ Table(t)[id].created_by = u
        => Decide(u, t, id, level)

(* =========================== unknown roles ============================= *)
\* The principals whose role is none of Viewer, User, Manager, Admin.
UnknownRoleUsers ==
    {u \in Users : users[u].role \notin {"Viewer", "User", "Manager", "Admin"}}

\* C25: a principal with an unknown role is treated like a Viewer:
\* require_role rejects it for User, Manager and Admin, the generic decision
\* denies it Write and Full, and its create requests for child records are
\* answered 403.
C25_UnknownRoleFailsSafe ==
    [][/\ \A u \in UnknownRoleUsers :
              /\ \A r \in {"User", "Manager", "Admin"} : ~require_role(u, r)
              /\ \A t \in ModelClasses, id \in RequestIds, level \in {"Write", "Full"} :
                     ~Decide(u, t, id, level)
       /\ CreateStep /\ resp'.user \in UnknownRoleUsers => resp'.status = 403]_vars

(* ============================ deletion ================================= *)
\* DELETE /wbs/{wbs_id}: the dependency decides Full on the WBS, then the
\* row is looked up; assets.wbs_id references the row (foreign keys are on).
delete_wbs(c, wbs_id, fault) ==
    IF ~check_record_access(record_access, c, "WBS", wbs_id, "Full")
    THEN Reject("delete_wbs", 403, c)
    ELSE IF wbs_id \notin DOMAIN wbs
    THEN Reject("delete_wbs", 404, c)
    ELSE IF fault = "commit" \/ \E a \in DOMAIN asset : asset[a].wbs_id = wbs_id
    THEN Reject("delete_wbs", 500, c)
    ELSE /\ Len(audit_log) < MaxAudit
         /\ wbs' = DeleteRow(wbs, wbs_id)
         /\ audit_log_change("delete_wbs", "DELETE", "wbs", c, wbs_id, wbs_id, <<>>, fault)
         /\ UNCHANGED <<users, procurement, memberships, record_access, business_case,
                        budget_item, line_item, asset, now>>

\* DELETE /budget-items/{id}: Manager and above; refused while a line item
\* draws on the budget item; the handler writes its own audit entry.
delete_budget_item(c, id, fault) ==
    IF ~require_role(c, "Manager")
    THEN Reject("delete_budget_item", 403, c)
    ELSE IF id \notin DOMAIN budget_item
    THEN Reject("delete_budget_item", 404, c)
    ELSE IF \E li \in DOMAIN line_item : line_item[li].budget_item_id = id
    THEN Reject("delete_budget_item", 400, c)
    ELSE IF fault # "none"
    THEN Reject("delete_budget_item", 500, c)
    ELSE LET audit_entry ==
                 [table_name |-> "budget_item", record_id |-> id,
                  action |-> "DELETE", old_values |-> Snapshot(budget_item[id]),
                  new_values |-> <<>>, user_id |-> c]
         IN  /\ Len(audit_log) < MaxAudit
             /\ budget_item' = DeleteRow(budget_item, id)
             /\ audit_log' = add_audit_entry(audit_log, audit_entry)
             /\ resp' = Response("delete_budget_item", 200, c, id)
             /\ UNCHANGED <<users, procurement, memberships, record_access, business_case,
                            line_item, wbs, asset, now>>

\* DELETE /business-case-line-items/{id}: Manager and above; refused while
\* a WBS hangs under the line item; the handler writes its own audit entry.
delete_line_item(c, id, fault) ==
    IF ~require_role(c, "Manager")
    THEN Reject("delete_line_item", 403, c)
    ELSE IF id \notin DOMAIN line_item
    THEN Reject("delete_line_item", 404, c)
    ELSE IF \E w \in DOMAIN wbs : wbs[w].business_case_line_item_id = id
    THEN Reject("delete_line_item", 400, c)
    ELSE IF fault # "none"
    THEN Reject("delete_line_item", 500, c)
    ELSE LET audit_entry ==
                 [table_name |-> "business_case_line_item", record_id |-> id,
                  action |-> "DELETE", old_values |-> Snapshot(line_item[id]),
                  new_values |-> <<>>, user_id |-> c]
         IN  /\ Len(audit_log) < MaxAudit
             /\ line_item' = DeleteRow(line_item, id)
             /\ audit_log' = add_audit_entry(audit_log, audit_entry)
             /\ resp' = Response("delete_line_item", 200, c, id)
             /\ UNCHANGED <<users, procurement, memberships, record_access, business_case,
                            budget_item, wbs, asset, now>>

\* The specification of deletion: the chain budget item 1 <- line item 1 ->
\* business case 1, WBS 1 under the line item and asset 1, the business
\* case, the WBS and the asset created by the User.  The Admin grants Full
\* on the asset and on the WBS to the User or to group 1, the Manager adds
\* the User and the Viewer to group 1, and the User, the Viewer and the
\* Manager send delete requests for stored and for missing records.
InitDelete ==
    /\ users = SeedUsers
    /\ NoProcurement
    /\ memberships = NoMemberships
    /\ record_access = NoRows
    /\ audit_log = NoRows
    /\ now = 0
    /\ resp = Response("none", 0, NULL, NULL)
    /\ asset = (1 :> [wbs_id |-> NULL, owner_group_id |-> 1, created_by |-> 2,
                      status |-> "Active", updated_by |-> NULL])
    /\ wbs = SeedWbs
    /\ business_case = (1 :> [created_by |-> 2, lead_group_id |-> 1, status |-> "Draft",
                              dept |-> "IT", updated_by |-> NULL])
    /\ budget_item = SeedBudgetItems
    /\ line_item = SeedChainLineItem

DeleteCallers == {2, 3, 4}
DeleteIds == {1, 2}
DeleteFaults == {"none", "commit"}
DeleteGrantInputs ==
    [record_type : {"Asset", "WBS"}, record_id : {1}, user_id : {2},
     group_id : {NULL}, access_level : {"Full"}, expires_at : {NULL}]
    \cup
    [record_type : {"Asset"}, record_id : {1}, user_id : {NULL},
     group_id : {1}, access_level : {"Full"}, expires_at : {NULL}]

NextDelete ==
    \/ \E a \in DeleteGrantInputs : grant_access(1, a)
    \/ \E u \in {2, 3} : add_group_member(4, 1, [user_id |-> u, group_id |-> 1])
    \/ \E c \in DeleteCallers, id \in DeleteIds, f \in DeleteFaults : delete_asset(c, id, f)
    \/ \E c \in DeleteCallers, id \in DeleteIds, f \in DeleteFaults : delete_wbs(c, id, f)
    \/ \E c \in DeleteCallers, id \in DeleteIds, f \in DeleteFaults :
           delete_line_item(c, id, f)
    \/ \E c \in DeleteCallers, id \in DeleteIds, f \in DeleteFaults :
           delete_budget_item(c, id, f)
    \/ \E c \in DeleteCallers, id \in DeleteIds, f \in DeleteFaults :
           delete_business_case(c, id, f)

SpecDelete == InitDelete /\ [][NextDelete]_vars

DeleteOps ==
    {"delete_asset", "delete_wbs", "delete_line_item", "delete_budget_item",
     "delete_business_case"}

\* The delete request `op` for record `id` sent by principal c.
DeleteRequest(op, c, id, fault) ==
    CASE op = "delete_asset" -> delete_asset(c, id, fault)
      [] op = "delete_wbs" -> delete_wbs(c, id, fault)
      [] op = "delete_line_item" -> delete_line_item(c, id, fault)
      [] op = "delete_budget_item" -> delete_budget_item(c, id, fault)
      [] op = "delete_business_case" -> delete_business_case(c, id, fault)

\* The table a delete request works on.
DeleteTable(op) ==
    CASE op = "delete_asset" -> asset
      [] op = "delete_wbs" -> wbs
      [] op = "delete_line_item" -> line_item
      [] op = "delete_budget_item" -> budget_item
      [] op = "delete_business_case" -> business_case

InitViewer ==
    /\ users = SeedUsers
    /\ NoProcurement
    /\ memberships = NoMemberships
    /\ record_access = NoRows
    /\ audit_log = NoRows
    /\ now = 0
    /\ resp = Response("none", 0, NULL, NULL)
    /\ business_case = SeedLedCase
    /\ budget_item = SeedBudgetItems
    /\ line_item = SeedChainLineItem
    /\ wbs = SeedWbs
    /\ asset = NoRows

ViewerCallers == {u \in Users : SeedUsers[u].role = "Viewer"}
ViewerStatuses == {"Draft", "Submitted", Unset}

NextViewer ==
    \/ \E v \in ViewerCallers, g \in Groups :
           add_group_member(4, g, [user_id |-> v, group_id |-> g])
    \/ \E v \in ViewerCallers, b \in CaseBodies, f \in Faults :
           create_business_case(v, b, f)
    \/ \E v \in ViewerCallers, id \in CaseIds, st \in ViewerStatuses :
           update_business_case(v, id, [status |-> st], "none")
    \/ \E v \in ViewerCallers, id \in DeleteIds, f \in DeleteFaults :
           delete_business_case(v, id, f)
    \/ \E v \in ViewerCallers, id \in DeleteIds, t \in Titles, f \in DeleteFaults :
           update_budget_item(v, id, [title |-> t], f)
    \/ \E v \in ViewerCallers, id \in DeleteIds, f \in DeleteFaults :
           delete_budget_item(v, id, f)
    \/ \E v \in ViewerCallers, id \in DeleteIds, st \in RecordStatuses, f \in DeleteFaults :
           update_wbs(v, id, [status |-> st], f)
    \/ \E v \in ViewerCallers, p \in DeleteIds, x \in Groups :
           create_wbs(v, [business_case_line_item_id |-> p, owner_group_id |-> x,
                          status |-> "Active"], "none")

SpecViewer == InitViewer /\ [][NextViewer]_vars

\* The requests that create, update or delete an owned record.
OwnedRecordMutations ==
    CreateOps \cup DeleteOps
    \cup {"create_business_case", "create_budget_item", "create_line_item",
          "update_business_case", "update_budget_item", "update_wbs", "update_asset"}

\* C27: Viewers never mutate records: a create, update or delete request of
\* a principal whose role is Viewer never succeeds and leaves every table
\* as it was, whatever groups the Viewer belongs to.
C27_ViewersNeverMutate ==
    [][resp'.op \in OwnedRecordMutations /\ users[resp'.user].role = "Viewer"
       => resp'.status # 200 /\ tables' = tables]_vars

(* ============================ delegation =============================== *)
\* The specification of delegation: asset 1 created by the Admin or by the
\* User.  The Admin grants Full on the asset to the User, without expiry or
\* expiring at the first tick of the clock; the clock ticks; the User and
\* the Viewer grant access on the asset to group 1.
InitDelegate ==
    /\ InitCommon
    /\ asset \in SeedAssets
    /\ wbs = NoRows /\ business_case = NoRows
    /\ budget_item = NoRows /\ line_item = NoRows

Delegates == {2, 3}
AuthorityInputs ==
    [record_type : {"Asset"}, record_id : {1}, user_id : {2}, group_id : {NULL},
     access_level : {"Write", "Full"}, expires_at : {NULL} \cup ExpiryTimes]
DelegatedInputs ==
    [record_type : {"Asset"}, record_id : {1}, user_id : {NULL}, group_id : {1},
     access_level : Levels, expires_at : {NULL}]

NextDelegate ==
    \/ Tick
    \/ \E a \in AuthorityInputs : grant_access(1, a)
    \/ \E c \in Delegates, a \in DelegatedInputs : grant_access(c, a)

SpecDelegate == InitDelegate /\ [][NextDelegate]_vars

\* Principal u holds a direct Full grant on the record that has not expired.
LiveFullGrant(u, record_type, record_id) ==
    \E i \in DOMAIN record_access :
        /\ record_access[i].record_type = record_type
        /\ record_access[i].record_id = record_id
        /\ record_access[i].user_id = u
        /\ record_access[i].access_level = "Full"
        /\ NotExpired(record_access[i])

\* C28: delegation needs live authority: when a grant request of a
\* principal who is neither Admin nor Manager adds a grant, the principal
\* is the creator of the record or holds a direct Full grant on it that has
\* not expired.
C28_DelegationNeedsLiveAuthority ==
    [][/\ Len(record_access') > Len(record_access)
       /\ users[resp'.user].role \notin {"Admin", "Manager"}
       => LET a == record_access'[Len(record_access')]
          IN  \/ /\ RecordExists(a.record_type, a.record_id)
                 /\ Table(a.record_type)[a.record_id].created_by = resp'.user
              \/ LiveFullGrant(resp'.user, a.record_type, a.record_id)]_vars

(* ============================ list and get ============================= *)
\* The record ids of the non-expired grants of `record_type` given to user u.
explicit_access(u, record_type) ==
    {record_access[i].record_id :
        i \in {j \in DOMAIN record_access :
                  /\ record_access[j].record_type = record_type
                  /\ record_access[j].user_id = u
                  /\ NotExpired(record_access[j])}}

\* The record ids of the non-expired grants of `record_type` given to a
\* group of user u.
group_access(u, record_type) ==
    {record_access[i].record_id :
        i \in {j \in DOMAIN record_access :
                  /\ record_access[j].record_type = record_type
                  /\ record_access[j].group_id \in user_group_ids(u)
                  /\ NotExpired(record_access[j])}}

\* GET /wbs: everything for Admin and Manager; for the others the rows of
\* their groups, the rows they created and the rows of their own grants.
list_wbs(u) ==
    IF users[u].role \in {"Admin", "Manager"} THEN DOMAIN wbs
    ELSE {id \in DOMAIN wbs :
             \/ wbs[id].owner_group_id \in user_group_ids(u)
             \/ wbs[id].created_by = u
             \/ id \in explicit_access(u, "WBS")}

\* GET /wbs/{wbs_id}
get_wbs(c, wbs_id) ==
    IF ~check_record_access(record_access, c, "WBS", wbs_id, "Read") THEN 403
    ELSE IF wbs_id \notin DOMAIN wbs THEN 404
    ELSE 200

\* GET /business-case-line-items
list_line_items(u) ==
    IF users[u].role \in {"Admin", "Manager"} THEN DOMAIN line_item
    ELSE {id \in DOMAIN line_item :
             \/ line_item[id].owner_group_id \in user_group_ids(u)
             \/ line_item[id].created_by = u
             \/ id \in explicit_access(u, "BusinessCaseLineItem")}

\* GET /business-case-line-items/{id}: no access check.
get_line_item(c, id) ==
    IF id \notin DOMAIN line_item THEN 404 ELSE 200

get_accessible_asset_ids(u) ==
    IF users[u].role \in {"Admin", "Manager"} THEN DOMAIN asset
    ELSE {id \in DOMAIN asset : \/ asset[id].owner_group_id \in user_group_ids(u)
                                \/ asset[id].created_by = u}
         \cup explicit_access(u, "Asset") \cup group_access(u, "Asset")

\* GET /assets
list_assets(u) == DOMAIN asset \cap get_accessible_asset_ids(u)

\* GET /assets/{asset_id}
get_asset(c, asset_id) ==
    IF ~check_record_access(record_access, c, "Asset", asset_id, "Read") THEN 403
    ELSE IF asset_id \notin DOMAIN asset THEN 404
    ELSE 200

\* GET /business-cases
list_business_cases(u) ==
    IF users[u].role \in {"Admin", "Manager"} THEN DOMAIN business_case
    ELSE {id \in DOMAIN business_case :
             check_business_case_access(record_access, u, id, "Read")}

\* GET /budget-items: no access filter.
list_budget_items(u) == DOMAIN budget_item

\* The specification of listing: the chain budget item 1 <- line item 1 ->
\* business case 1 with WBS 1 and asset 1 under it, owned by group 1.  The
\* Admin grants Read on the WBS and on the asset to the Viewer or to group
\* 2, the Manager adds the Viewer to a group, and the clock ticks.
InitList ==
    /\ InitCommon
    /\ business_case = SeedChainCase
    /\ budget_item = SeedBudgetItems
    /\ line_item = SeedChainLineItem
    /\ wbs = SeedWbs
    /\ asset = SeedChainAsset

Readers == {3}
ListGrantInputs ==
    {a \in [record_type : {"WBS", "Asset"}, record_id : {1}, user_id : Readers \cup {NULL},
            group_id : {2, NULL}, access_level : {"Read"},
            expires_at : {NULL} \cup ExpiryTimes] :
        (a.user_id = NULL) # (a.group_id = NULL)}

NextList ==
    \/ Tick
    \/ \E a \in ListGrantInputs : grant_access(1, a)
    \/ \E u \in Readers, g \in Groups :
           add_group_member(4, g, [user_id |-> u, group_id |-> g])

SpecList == InitList /\ [][NextList]_vars

\* C29: list and get agree: for every principal who is neither Admin nor
\* Manager and every record id, the list operation of a type returns the
\* record iff the get operation of that type answers 200 for it.
C29_ListAndGetAgree ==
    \A u \in NonAdmins, id \in RequestIds :
        /\ id \in list_wbs(u) <=> get_wbs(u, id) = 200
        /\ id \in list_line_items(u) <=> get_line_item(u, id) = 200
        /\ id \in list_assets(u) <=> get_asset(u, id) = 200
        /\ id \in list_business_cases(u) <=> get_business_case(u, id) = 200
        /\ id \in list_budget_items(u) <=> get_budget_item(u, id) = 200

(* ========================= membership removal ========================== *)
\* The specification of memberships: asset 1 owned by group 1 and created
\* by the Admin.  The Admin grants Read on the asset to group 2; the Manager
\* and the User send add and remove requests for the User's and the
\* Viewer's memberships.
InitMembers ==
    /\ InitCommon
    /\ asset = (1 :> [wbs_id |-> NULL, owner_group_id |-> 1, created_by |-> 1,
                      status |-> "Active", updated_by |-> NULL])
    /\ wbs = NoRows /\ business_case = NoRows
    /\ budget_item = NoRows /\ line_item = NoRows

MemberCallers == {2, 4}
Members == {2, 3}
MemberGrantInputs ==
    [record_type : {"Asset"}, record_id : {1}, user_id : {NULL}, group_id : {2},
     access_level : {"Read"}, expires_at : {NULL}]

NextMembers ==
    \/ \E a \in MemberGrantInputs : grant_access(1, a)
    \/ \E c \in MemberCallers, u \in Members, g \in Groups, bg \in Groups :
           add_group_member(c, g, [user_id |-> u, group_id |-> bg])
    \/ \E c \in MemberCallers, u \in Members, g \in Groups :
           remove_group_member(c, g, u)

SpecMembers == InitMembers /\ [][NextMembers]_vars

\* The access of principal u to asset 1 rests on the membership of group g
\* alone: u is allowed Read, is not the creator, holds no grant of its own
\* and belongs to no other group.
RestsOnMembership(u, g) ==
    /\ 1 \in DOMAIN asset
    /\ Decide(u, "Asset", 1, "Read")
    /\ asset[1].created_by # u
    /\ DirectGrant(record_access, u, "Asset", 1) = 0
    /\ user_group_ids(u) = {g}

\* C30: membership removal is effective: after a successful
\* remove_group_member(group, user) the user is not a member of the group,
\* and access to the asset that rested on that membership alone is denied.
C30_RemovalIsEffective ==
    [][resp'.op = "remove_group_member" /\ resp'.status = 200
       => \A u \in Members, g \in Groups :
              remove_group_member(resp'.user, g, u)
              => /\ ~IsMember(u, g)'
                 /\ RestsOnMembership(u, g) => ~Decide(u, "Asset", 1, "Read")']_vars

====
